---- MODULE Spec2Model ----
\* Model of buscale.py: the vocabulary loader, the vocabulary index builder
\* and the MatCompat scoring function.
\*
\* Representation.
\*   - A Python str is a tuple of one-character strings, <<"a","g">> is "ag".
\*   - A Python float is a double, [m, e] for m * 2^e, and its arithmetic is
\*     the double's: see "binary floats" below.  A rounded result
\*     round(x, n) is held as the integer round(x, n) * 10^n, a percentage of
\*     the table as the integer of its PctUnit-ths.
\*   - A text is a sequence of runs <<chunk, n>>: the Python string made of
\*     n copies of chunk, all copies and runs joined by one blank.  tokenize
\*     works on the characters of a chunk; a run of n >= 1 copies of a
\*     one-token chunk is scanned as n identical iterations of the loop at once.
EXTENDS Integers, Sequences, FiniteSets, TLC

VARIABLES rows, vocab_df, vocab_idx, text, out, pc

vars == <<rows, vocab_df, vocab_idx, text, out, pc>>

\* ---------------------------------------------------------------- bounds
MaxRecords == 2      \* records of the palabras_clave table
MaxRuns == 2         \* runs of a text
BigRep == 9001       \* copies of the chunk in the one long run

\* ----------------------------------------------------------------- units
PctUnit == 1000      \* one percent of porcentaje_identidad

\* ------------------------------------------------------ binary floats
\* A Python float is an IEEE-754 double.  Here a non-negative double is
\* [m, e], the value m * 2^e, with m = 0 and e = 0 for 0.0 and otherwise
\* 2^52 <= m < 2^53.  m is a natural number held as its digits in base
\* LimbBase, least significant first, without leading zero digits.  Every
\* operation computes the exact result and rounds it to the nearest double,
\* ties to even, as the hardware does.
LimbBase == 32768

LimbBits == 15

MantBits == 53

RECURSIVE Pow2(_)
Pow2(k) == IF k <= 0 THEN 1 ELSE 2 * Pow2(k - 1)

RECURSIVE BTrim(_)
BTrim(a) ==
  IF a # <<>> /\ a[Len(a)] = 0 THEN BTrim(SubSeq(a, 1, Len(a) - 1)) ELSE a

RECURSIVE BFromInt(_)
BFromInt(n) ==
  IF n = 0 THEN <<>> ELSE <<n % LimbBase>> \o BFromInt(n \div LimbBase)

RECURSIVE BToInt(_)
BToInt(a) == IF a = <<>> THEN 0 ELSE Head(a) + LimbBase * BToInt(Tail(a))

Limb(a, i) == IF i <= Len(a) THEN a[i] ELSE 0

RECURSIVE BAddFrom(_, _, _, _)
BAddFrom(a, b, i, carry) ==
  IF i > Len(a) /\ i > Len(b)
  THEN (IF carry = 0 THEN <<>> ELSE <<carry>>)
  ELSE LET t == Limb(a, i) + Limb(b, i) + carry
       IN <<t % LimbBase>> \o BAddFrom(a, b, i + 1, t \div LimbBase)

BAdd(a, b) == BAddFrom(a, b, 1, 0)

\* a * k for 0 <= k < 2 * LimbBase
RECURSIVE BMulSmallFrom(_, _, _, _)
BMulSmallFrom(a, k, i, carry) ==
  IF i > Len(a) THEN BFromInt(carry)
  ELSE LET t == a[i] * k + carry
       IN <<t % LimbBase>> \o BMulSmallFrom(a, k, i + 1, t \div LimbBase)

BMulSmall(a, k) == IF k = 0 THEN <<>> ELSE BMulSmallFrom(a, k, 1, 0)

Zeros(n) == [i \in 1..n |-> 0]

RECURSIVE BMulFrom(_, _, _)
BMulFrom(a, b, i) ==
  IF i > Len(a) THEN <<>>
  ELSE BAdd(IF a[i] = 0 THEN <<>> ELSE Zeros(i - 1) \o BMulSmall(b, a[i]),
            BMulFrom(a, b, i + 1))

BMul(a, b) == BMulFrom(a, b, 1)

\* a * 2^s
BShl(a, s) ==
  IF a = <<>> THEN <<>>
  ELSE Zeros(s \div LimbBits) \o BMulSmall(a, Pow2(s % LimbBits))

\* a divided by d, 0 < d < 2 * LimbBase, from the most significant digit down:
\* the quotient q and the remainder r.
RECURSIVE BDivSmallFrom(_, _, _, _)
BDivSmallFrom(a, d, i, rem) ==
  IF i = 0 THEN [q |-> <<>>, r |-> rem]
  ELSE LET t == rem * LimbBase + a[i]
           rest == BDivSmallFrom(a, d, i - 1, t % d)
       IN [q |-> Append(rest.q, t \div d), r |-> rest.r]

BDivSmall(a, d) ==
  LET qr == BDivSmallFrom(a, d, Len(a), 0)
  IN [q |-> BTrim(qr.q), r |-> qr.r]

\* floor(a / 2^s), and whether a bit was shifted out
BShr(a, s) ==
  LET k == s \div LimbBits
      low == SubSeq(a, 1, IF k < Len(a) THEN k ELSE Len(a))
      high == SubSeq(a, k + 1, Len(a))
      qr == BDivSmall(high, Pow2(s % LimbBits))
  IN [q |-> qr.q, sticky |-> qr.r # 0 \/ \E i \in 1..Len(low) : low[i] # 0]

RECURSIVE IntBitLen(_)
IntBitLen(n) == IF n = 0 THEN 0 ELSE 1 + IntBitLen(n \div 2)

BBitLen(a) ==
  IF a = <<>> THEN 0 ELSE LimbBits * (Len(a) - 1) + IntBitLen(a[Len(a)])

IsOdd(a) == a # <<>> /\ a[1] % 2 = 1

\* -1, 0, 1 as a < b, a = b, a > b
RECURSIVE BCmpFrom(_, _, _)
BCmpFrom(a, b, i) ==
  IF i = 0 THEN 0
  ELSE IF a[i] < b[i] THEN 0 - 1
  ELSE IF a[i] > b[i] THEN 1
  ELSE BCmpFrom(a, b, i - 1)

BCmp(a, b) ==
  IF Len(a) < Len(b) THEN 0 - 1
  ELSE IF Len(a) > Len(b) THEN 1
  ELSE BCmpFrom(a, b, Len(a))

\* floor(a / 2^s) rounded to nearest, ties to even; sticky tells that the
\* exact value lies above a.
BShrRound(a, s, sticky) ==
  IF s <= 0 THEN a
  ELSE LET t == BShr(a, s - 1)
           q == BDivSmall(t.q, 2).q
           up == IsOdd(t.q) /\ (t.sticky \/ sticky \/ IsOdd(q))
       IN IF up THEN BAdd(q, <<1>>) ELSE q

DZero == [m |-> <<>>, e |-> 0]

\* The double nearest to M * 2^E (to a value above it when sticky, which
\* takes a M of more than MantBits + 1 bits).
RoundToDouble(M, E, sticky) ==
  IF M = <<>> THEN DZero
  ELSE LET len == BBitLen(M)
       IN IF len <= MantBits
          THEN [m |-> BShl(M, MantBits - len), e |-> E - (MantBits - len)]
          ELSE LET s == len - MantBits
                   q == BShrRound(M, s, sticky)
               IN IF BBitLen(q) > MantBits
                  THEN [m |-> BDivSmall(q, 2).q, e |-> E + s + 1]
                  ELSE [m |-> q, e |-> E + s]

DFromInt(n) == RoundToDouble(BFromInt(n), 0, FALSE)

\* x + y
DAdd(x, y) ==
  IF x.m = <<>> THEN y
  ELSE IF y.m = <<>> THEN x
  ELSE LET e == IF x.e < y.e THEN x.e ELSE y.e
       IN RoundToDouble(BAdd(BShl(x.m, x.e - e), BShl(y.m, y.e - e)), e, FALSE)

\* x * y
DMul(x, y) ==
  IF x.m = <<>> \/ y.m = <<>> THEN DZero
  ELSE RoundToDouble(BMul(x.m, y.m), x.e + y.e, FALSE)

\* x / d for an integer 0 < d < 2 * LimbBase
DDivInt(x, d) ==
  IF x.m = <<>> THEN DZero
  ELSE LET qr == BDivSmall(Zeros(5) \o x.m, d)
       IN RoundToDouble(qr.q, x.e - 5 * LimbBits, qr.r # 0)

\* n / d for integers, and the double of the decimal literal n/d
DFromRatio(n, d) == DDivInt(DFromInt(n), d)

\* -1, 0, 1 as x < y, x = y, x > y
DCmp(x, y) ==
  IF x.m = <<>> /\ y.m = <<>> THEN 0
  ELSE IF x.m = <<>> THEN 0 - 1
  ELSE IF y.m = <<>> THEN 1
  ELSE LET e == IF x.e < y.e THEN x.e ELSE y.e
       IN BCmp(BShl(x.m, x.e - e), BShl(y.m, y.e - e))

RECURSIVE Pow10(_)
Pow10(k) == IF k <= 0 THEN 1 ELSE 10 * Pow10(k - 1)

\* round(x, ndigits), as the integer round(x, ndigits) * 10^ndigits: the
\* exact value of the double is rounded, ties to even.
DRound(x, ndigits) ==
  LET N == BMulSmall(x.m, Pow10(ndigits))
  IN IF x.e >= 0 THEN BToInt(BShl(N, x.e)) ELSE BToInt(BShrRound(N, 0 - x.e, FALSE))

\* floor(x * 10^ndigits)
DTrunc(x, ndigits) ==
  LET N == BMulSmall(x.m, Pow10(ndigits))
  IN IF x.e >= 0 THEN BToInt(BShl(N, x.e)) ELSE BToInt(BShr(N, 0 - x.e).q)

\* ------------------------------------------------------------ characters
\* unicodedata.category(c) == "Mn": the combining acute accent.
Mn == {"´"}

\* Characters that are not \w for re.split(r"\W+", ...).
NonWordChars == {" ", ",", "-", "´"}

IsWordChar(c) == c \notin NonWordChars

IsSpace(c) == c = " "

\* str.lower() on one character.
LowerChar(c) ==
  CASE c = "A" -> "a"
    [] c = "G" -> "g"
    [] c = "D" -> "d"
    [] c = "E" -> "e"
    [] c = "Á" -> "á"
    [] OTHER -> c

\* unicodedata.normalize("NFD", c) on one character.
NFDChar(c) ==
  CASE c = "á" -> <<"a", "´">>
    [] c = "Á" -> <<"A", "´">>
    [] OTHER -> <<c>>

lower(s) == [i \in 1..Len(s) |-> LowerChar(s[i])]

RECURSIVE NFD(_)
NFD(s) == IF s = <<>> THEN <<>> ELSE NFDChar(Head(s)) \o NFD(Tail(s))

IsNotMn(c) == c \notin Mn

strip_accents(s) == SelectSeq(NFD(s), IsNotMn)

RECURSIVE lstrip(_)
lstrip(s) == IF s # <<>> /\ IsSpace(Head(s)) THEN lstrip(Tail(s)) ELSE s

RECURSIVE rstrip(_)
rstrip(s) ==
  IF s # <<>> /\ IsSpace(s[Len(s)]) THEN rstrip(SubSeq(s, 1, Len(s) - 1)) ELSE s

strip(s) == rstrip(lstrip(s))

\* Mutant: the key keeps its accents.
NormalizeKeepAccents(s) == lower(strip(s))

normalize_token(s) == strip_accents(lower(strip(s)))

\* re.split(r"\W+", s): the fragments between maximal runs of non-word
\* characters, empty fragments at the ends included.
RECURSIVE ReSplitNonWord(_, _, _, _)
ReSplitNonWord(s, cur, insep, acc) ==
  IF s = <<>> THEN Append(acc, cur)
  ELSE IF IsWordChar(Head(s))
       THEN ReSplitNonWord(Tail(s), Append(cur, Head(s)), FALSE, acc)
  ELSE IF insep THEN ReSplitNonWord(Tail(s), cur, TRUE, acc)
  ELSE ReSplitNonWord(Tail(s), <<>>, TRUE, Append(acc, cur))

NonEmpty(t) == t # <<>>

\* tokenize on the characters of one chunk.
tokenize(s) ==
  SelectSeq(ReSplitNonWord(strip_accents(lower(s)), <<>>, FALSE, <<>>), NonEmpty)

\* str.split(","): every fragment, the empty ones included.
RECURSIVE SplitComma(_, _, _)
SplitComma(s, cur, acc) ==
  IF s = <<>> THEN Append(acc, cur)
  ELSE IF Head(s) = "," THEN SplitComma(Tail(s), <<>>, Append(acc, cur))
  ELSE SplitComma(Tail(s), Append(cur, Head(s)), acc)

STOPWORDS_ES == {
  <<"d","e">>, <<"l","a">>, <<"l","a","s">>, <<"e","l">>, <<"l","o","s">>,
  <<"y">>, <<"o">>, <<"u">>, <<"e","n">>, <<"c","o","n">>, <<"p","o","r">>,
  <<"p","a","r","a">>, <<"a">>, <<"u","n">>, <<"u","n","a">>,
  <<"u","n","o","s">>, <<"u","n","a","s">>, <<"a","l">>, <<"d","e","l">>,
  <<"q","u","e">>, <<"s","e">>, <<"s","u">>, <<"s","u","s">>, <<"e","s">>,
  <<"s","o","n">>, <<"c","o","m","o">>, <<"p","e","r","o">>, <<"s","i">>,
  <<"n","o">>, <<"l","o">>, <<"l","e">>, <<"e","s","t","e">>,
  <<"e","s","t","o","s">>, <<"e","s","t","a">>, <<"e","s","t","a","s">> }

\* A text as token runs <<token, n>>, in the order of the text.
RECURSIVE Repeat(_, _)
Repeat(seq, n) == IF n <= 0 THEN <<>> ELSE seq \o Repeat(seq, n - 1)

RunTokens(run) ==
  LET toks == tokenize(run[1])
      n == run[2]
  IN IF n <= 0 THEN <<>>
     ELSE IF Len(toks) = 1 THEN << <<toks[1], n>> >>
     ELSE Repeat([i \in 1..Len(toks) |-> <<toks[i], 1>>], n)

RECURSIVE tokenize_text(_)
tokenize_text(t) ==
  IF t = <<>> THEN <<>> ELSE RunTokens(Head(t)) \o tokenize_text(Tail(t))

\* len() of a list of token runs.
RECURSIVE TokLen(_)
TokLen(runs) == IF runs = <<>> THEN 0 ELSE Head(runs)[2] + TokLen(Tail(runs))

IsSignificant(r) == r[1] \notin STOPWORDS_ES

tokens_significativos(toks) == SelectSeq(toks, IsSignificant)

\* ------------------------------------------------------------ vocabulary
\* SQL NULL in the sinonimos column.
None == <<"NULL">>

\* astype(float) succeeds on a REAL and raises ValueError on a text value.
IsFloat(p) == p.kind = "real"

DOne == DFromInt(1)

\* .clip(0, 1) of a double that is w, or negative when neg
clip(w, neg) == IF neg THEN DZero ELSE IF DCmp(w, DOne) > 0 THEN DOne ELSE w

\* (porcentaje_identidad / 100.0).clip(0, 1): the double of the percentage,
\* divided by 100.
peso(p) ==
  LET abs == IF p.val < 0 THEN 0 - p.val ELSE p.val
  IN clip(DDivInt(DFromRatio(abs, PctUnit), 100), p.val < 0)

StripLower(p) == lower(strip(p))

NotBlank(p) == strip(p) # <<>>

clean_syn(s) ==
  IF s = None THEN <<>>
  ELSE LET kept == SelectSeq(SplitComma(s, <<>>, <<>>), NotBlank)
       IN [i \in 1..Len(kept) |-> StripLower(kept[i])]

CleanRow(r) ==
  [palabra |-> lower(strip(r.palabra)),
   peso |-> peso(r.porcentaje_identidad),
   sinonimos |-> clean_syn(r.sinonimos)]

\* Mutant: a row whose percentage is not a number is skipped.
LoadSkipBad(rs) ==
  LET IsGood(r) == IsFloat(r.porcentaje_identidad)
      good == SelectSeq(rs, IsGood)
  IN [raised |-> "", df |-> [i \in 1..Len(good) |-> CleanRow(good[i])]]

\* The loader: ValueError out of astype(float) when a percentage is not a
\* number, the cleaned frame otherwise.
load_vocab_from_sqlite(rs) ==
  IF \E i \in 1..Len(rs) : ~IsFloat(rs[i].porcentaje_identidad)
  THEN [raised |-> "ValueError", df |-> <<>>]
  ELSE [raised |-> "", df |-> [i \in 1..Len(rs) |-> CleanRow(rs[i])]]

EmptyIndex == [k \in {} |-> <<>>]

\* Mutant: a key already in the index keeps its first value.
PutFirstWins(index, k, v) ==
  [x \in DOMAIN index \cup {k} |-> IF x \in DOMAIN index THEN index[x] ELSE v]

\* index[k] = v
Put(index, k, v) ==
  [x \in DOMAIN index \cup {k} |-> IF x = k THEN v ELSE index[x]]

RECURSIVE AddSynonyms(_, _, _, _)
AddSynonyms(index, syns, base, w) ==
  IF syns = <<>> THEN index
  ELSE LET s_key == normalize_token(Head(syns))
       IN AddSynonyms(IF s_key # <<>> THEN Put(index, s_key, <<base, w>>) ELSE index,
                      Tail(syns), base, w)

AddRow(index, row) ==
  LET base == row.palabra
      w == row.peso
      base_key == normalize_token(base)
  IN AddSynonyms(Put(index, base_key, <<base, w>>), row.sinonimos, base, w)

RECURSIVE BuildFrom(_, _)
BuildFrom(index, df) ==
  IF df = <<>> THEN index ELSE BuildFrom(AddRow(index, Head(df)), Tail(df))

build_vocab_index(df) == BuildFrom(EmptyIndex, df)

\* ---------------------------------------------------------------- scoring
\* counts[pair] += n on a Counter, which keeps its keys in insertion order.
CounterAdd(counts, pair, n) ==
  IF \E i \in 1..Len(counts) : counts[i].key = pair
  THEN [i \in 1..Len(counts) |->
          IF counts[i].key = pair
          THEN [key |-> pair, cnt |-> counts[i].cnt + n]
          ELSE counts[i]]
  ELSE Append(counts, [key |-> pair, cnt |-> n])

\* The loop over toks: a run <<tk, n>> is n iterations on the same token.
RECURSIVE Scan(_, _, _, _)
Scan(toks, vocab_index, counts, pesos) ==
  IF toks = <<>> THEN [counts |-> counts, pesos |-> pesos]
  ELSE LET tk == Head(toks)[1]
           n == Head(toks)[2]
       IN IF tk \in DOMAIN vocab_index
          THEN Scan(Tail(toks), vocab_index,
                    CounterAdd(counts, vocab_index[tk], n),
                    Append(pesos, <<vocab_index[tk][2], n>>))
          ELSE Scan(Tail(toks), vocab_index, counts, pesos)

\* sum(counts.values())
RECURSIVE SumCounts(_)
SumCounts(counts) ==
  IF counts = <<>> THEN 0 ELSE Head(counts).cnt + SumCounts(Tail(counts))

\* sum(pesos) and len(pesos), pesos held as runs <<w, n>>: sum() adds the
\* floats one by one, from the left. AddTimes adds w to acc n times in that
\* order; the additions are grouped in halves only to keep the nesting low.
\* (CPython up to 3.11; from 3.12 on sum() compensates the rounding errors.)
RECURSIVE AddTimes(_, _, _)
AddTimes(acc, w, n) ==
  IF n <= 0 \/ w.m = <<>> THEN acc
  ELSE IF acc.m = <<>> THEN AddTimes(w, w, n - 1)
  ELSE IF n = 1 THEN DAdd(acc, w)
  ELSE AddTimes(AddTimes(acc, w, n \div 2), w, n - (n \div 2))

RECURSIVE SumFrom(_, _)
SumFrom(acc, pesos) ==
  IF pesos = <<>> THEN acc
  ELSE SumFrom(AddTimes(acc, Head(pesos)[1], Head(pesos)[2]), Tail(pesos))

SumPesos(pesos) == SumFrom(DZero, pesos)

RECURSIVE LenPesos(_)
LenPesos(pesos) == IF pesos = <<>> THEN 0 ELSE Head(pesos)[2] + LenPesos(Tail(pesos))

\* Mutant: the matched tokens counted once per pair.
MatchedOncePerPair(counts) == Len(counts)

matched_tokens_of(counts) == SumCounts(counts)

distinct_terms_of(counts) == Len(counts)

\* Mutant: no fallback to the total token count.
DenomSigOnly(total_sig, total_tokens) == total_sig

\* denom = total_sig if total_sig > 0 else total_tokens
Denom(total_sig, total_tokens) == IF total_sig > 0 THEN total_sig ELSE total_tokens

\* round(x, 4)
Round4(x) == DRound(x, 4)

\* One entry of detalles.
Detalle(c) ==
  [termino |-> c.key[1],
   conteo |-> c.cnt,
   peso |-> c.key[2],
   aporte |-> Round4(DMul(DFromInt(c.cnt), c.key[2]))]

\* Mutant: an entry goes before the earlier entries of the same aporte.
InsertDescUnstable(sorted, d) ==
  LET k == Cardinality({i \in 1..Len(sorted) : sorted[i].aporte > d.aporte})
  IN SubSeq(sorted, 1, k) \o <<d>> \o SubSeq(sorted, k + 1, Len(sorted))

\* sorted(..., key=aporte, reverse=True) is stable: an entry goes after every
\* entry of the earlier ones whose aporte is at least its own.
InsertDesc(sorted, d) ==
  LET k == Cardinality({i \in 1..Len(sorted) : sorted[i].aporte >= d.aporte})
  IN SubSeq(sorted, 1, k) \o <<d>> \o SubSeq(sorted, k + 1, Len(sorted))

RECURSIVE SortFrom(_, _)
SortFrom(sorted, rest) ==
  IF rest = <<>> THEN sorted ELSE SortFrom(InsertDesc(sorted, Head(rest)), Tail(rest))

sorted_desc(ds) == SortFrom(<<>>, ds)

\* Mutant: the zero-match result reports no tokens at all.
ZeroResultNoCounts(total_tokens, total_sig) ==
  [raised |-> "", score |-> 0, matched_tokens |-> 0, distinct_terms |-> 0,
   total_tokens |-> 0, tokens_significativos |-> 0,
   avg_peso |-> 0, densidad_matematica |-> 0, matches |-> <<>>]

\* The result of the matched_tokens == 0 path.
ZeroResult(total_tokens, total_sig) ==
  [raised |-> "", score |-> 0, matched_tokens |-> 0, distinct_terms |-> 0,
   total_tokens |-> total_tokens, tokens_significativos |-> total_sig,
   avg_peso |-> 0, densidad_matematica |-> 0, matches |-> <<>>]

ZeroDivisionError(total_tokens, total_sig) ==
  [ZeroResult(total_tokens, total_sig) EXCEPT !.raised = "ZeroDivisionError"]

\* avg_peso = sum(pesos) / len(pesos)
AvgPeso(pesos) == DDivInt(SumPesos(pesos), LenPesos(pesos))

\* densidad = matched_tokens / denom
Densidad(matched_tokens, denom) == DFromRatio(matched_tokens, denom)

\* score = 100 * (0.55 * avg_peso + 0.45 * densidad)
D100 == DFromInt(100)

D055 == DFromRatio(55, 100)

D045 == DFromRatio(45, 100)

Score(avg_peso, densidad) ==
  DMul(D100, DAdd(DMul(D055, avg_peso), DMul(D045, densidad)))

\* Mutant: the score is cut to 2 decimals, not rounded.
Trunc2(x) == DTrunc(x, 2)

\* round(score, 2)
Round2(x) == DRound(x, 2)

matcompat_score(t, vocab_index) ==
  LET toks == tokenize_text(t)
      total_tokens == TokLen(toks)
      sig_toks == tokens_significativos(toks)
      total_sig == TokLen(sig_toks)
      scan == Scan(toks, vocab_index, <<>>, <<>>)
      counts == scan.counts
      pesos == scan.pesos
      matched_tokens == matched_tokens_of(counts)
      distinct_terms == distinct_terms_of(counts)
      denom == Denom(total_sig, total_tokens)
      avg_peso == AvgPeso(pesos)
      densidad == Densidad(matched_tokens, denom)
  IN IF matched_tokens = 0 THEN ZeroResult(total_tokens, total_sig)
     ELSE IF LenPesos(pesos) = 0 \/ denom = 0
          THEN ZeroDivisionError(total_tokens, total_sig)
     ELSE [raised |-> "",
           score |-> Round2(Score(avg_peso, densidad)),
           matched_tokens |-> matched_tokens,
           distinct_terms |-> distinct_terms,
           total_tokens |-> total_tokens,
           tokens_significativos |-> total_sig,
           avg_peso |-> Round4(avg_peso),
           densidad_matematica |-> Round4(densidad),
           matches |-> sorted_desc([i \in 1..Len(counts) |-> Detalle(counts[i])])]

\* ----------------------------------------------------------------- inputs
Real(v) == [kind |-> "real", val |-> v]

TextValue == [kind |-> "text", val |-> 0]

\* The rows the palabras_clave table may hold.
RecordPool == {
  [palabra |-> <<"a","g">>, porcentaje_identidad |-> Real(150000),
   sinonimos |-> <<"g","a">>],
  [palabra |-> <<"a","g">>, porcentaje_identidad |-> Real(50002),
   sinonimos |-> None],
  [palabra |-> <<" ","Á","g">>, porcentaje_identidad |-> Real(50004),
   sinonimos |-> <<"g","a",","," ",",","D","E">>],
  [palabra |-> <<"d","e">>, porcentaje_identidad |-> Real(0 - 5000),
   sinonimos |-> <<>>],
  [palabra |-> <<"a","-","g">>, porcentaje_identidad |-> Real(90000),
   sinonimos |-> <<"g","a">>],
  [palabra |-> <<"x">>, porcentaje_identidad |-> TextValue,
   sinonimos |-> None] }

\* The runs a text is made of.
RunPool == {
  << <<"g","a">>, 1 >>, << <<"d","e">>, 1 >>, << <<"d","e">>, 2 >>,
  << <<"x">>, BigRep >>, << <<"Á","g",","," ","e","l">>, 1 >> }

SeqsUpTo(S, n) == UNION {[1..k -> S] : k \in 0..n}

Vocabularies == SeqsUpTo(RecordPool, MaxRecords)

Texts == SeqsUpTo(RunPool, MaxRuns)

NoResult == ZeroResult(0, 0)

\* ---------------------------------------------------------- state machine
Init ==
  /\ rows \in Vocabularies
  /\ vocab_df = <<>>
  /\ vocab_idx = EmptyIndex
  /\ text = <<>>
  /\ out = NoResult
  /\ pc = "start"

\* app(): vocab_df = load_vocab_from_sqlite("vocab.db"); the exception of a
\* failed load ends the run before build_vocab_index.
Load ==
  /\ pc = "start"
  /\ LET r == load_vocab_from_sqlite(rows)
     IN IF r.raised # ""
        THEN pc' = "load_error" /\ vocab_df' = vocab_df
        ELSE pc' = "loaded" /\ vocab_df' = r.df
  /\ UNCHANGED <<rows, vocab_idx, text, out>>

\* app(): vocab_idx = build_vocab_index(vocab_df)
Build ==
  /\ pc = "loaded"
  /\ vocab_idx' = build_vocab_index(vocab_df)
  /\ pc' = "ready"
  /\ UNCHANGED <<rows, vocab_df, text, out>>

\* text_query.strip() is empty
IsBlank(t) == \A i \in 1..Len(t) : t[i][2] <= 0 \/ strip(t[i][1]) = <<>>

\* if submit_button and text_query.strip():
\*     score, info = matcompat_score(text_query, vocab_idx)
ScoreText ==
  /\ pc = "ready"
  /\ \E t \in Texts :
       /\ ~IsBlank(t)
       /\ text' = t
       /\ out' = matcompat_score(t, vocab_idx)
  /\ pc' = "scored"
  /\ UNCHANGED <<rows, vocab_df, vocab_idx>>

\* elif submit_button: st.warning(...), nothing is scored
Warn ==
  /\ pc = "ready"
  /\ \E t \in Texts :
       /\ IsBlank(t)
       /\ text' = t
  /\ pc' = "warned"
  /\ UNCHANGED <<rows, vocab_df, vocab_idx, out>>

\* The next run of the script: the cached frame and its index are as before.
Rerun ==
  /\ pc \in {"scored", "warned"}
  /\ pc' = "ready"
  /\ text' = <<>>
  /\ out' = NoResult
  /\ UNCHANGED <<rows, vocab_df, vocab_idx>>

Next == Load \/ Build \/ ScoreText \/ Warn \/ Rerun

Spec == Init /\ [][Next]_vars

\* ------------------------------------------------------------ properties
\* What the text and the index of the current state hold, counted from the
\* token runs directly (one term per run of the text).
Scored == pc = "scored"

Toks == tokenize_text(text)

IsHit(r) == r[1] \in DOMAIN vocab_idx

HitRuns == SelectSeq(Toks, IsHit)

\* M: token occurrences that are keys, D: the density denominator.
HitCount == TokLen(HitRuns)

SigCount == TokLen(SelectSeq(Toks, IsSignificant))

DensityDenominator ==
  LET sig == SigCount
  IN IF sig > 0 THEN sig ELSE TokLen(Toks)

\* The weights of the matched occurrences, one after the other, added up.
RECURSIVE SumWeights(_, _)
SumWeights(acc, hits) ==
  IF hits = <<>> THEN acc
  ELSE SumWeights(AddTimes(acc, vocab_idx[Head(hits)[1]][2], Head(hits)[2]), Tail(hits))

MeanWeight ==
  LET hits == HitRuns
  IN DDivInt(SumWeights(DZero, hits), TokLen(hits))

AllHitWeightsZero ==
  LET hits == HitRuns
  IN \A i \in 1..Len(hits) : vocab_idx[hits[i][1]][2] = DZero

\* 100 * (0.55 * mean weight + 0.45 * M / D), in floats
FormulaValue ==
  DMul(D100,
       DAdd(DMul(D055, MeanWeight),
            DMul(D045, DFromRatio(HitCount, DensityDenominator))))

\* The value of the formula is below 0.005: 200 times it is below 1.
BelowHalfCent ==
  /\ HitCount > 0
  /\ LET f == FormulaValue
     IN DCmp([m |-> BMulSmall(f.m, 200), e |-> f.e], DOne) < 0

\* C1 (as stated): the score is >= 0 and is 0 exactly when no token matched.
C1_ScoreZeroIffNoMatch ==
  Scored => /\ out.score >= 0
            /\ (out.score = 0 <=> out.matched_tokens = 0)

\* C1 (amended): the score is >= 0; it is 0 when no token matched, and with
\* at least one match it is 0 exactly when the float the formula gives is
\* below 0.005, which round(score, 2) takes to 0.0.
C1_ScoreZeroIffNoMatchOrRoundsToZero ==
  Scored => /\ out.score >= 0
            /\ (out.matched_tokens = 0 => out.score = 0)
            /\ (out.matched_tokens > 0 => (out.score = 0 <=> BelowHalfCent))

\* A weight-0 match among more than 9000 significant tokens scores 0.0.
C1_Witness ==
  Scored /\ out.matched_tokens > 0 /\ out.score = 0 /\ AllHitWeightsZero

\* C2: with every weight in [0,1] the score lies in [0,100].
C2_ScoreWithin0To100 ==
  Scored /\ (\A k \in DOMAIN vocab_idx :
               DCmp(vocab_idx[k][2], DZero) >= 0 /\ DCmp(vocab_idx[k][2], DOne) <= 0)
    => out.score >= 0 /\ out.score <= 100 * 100

RECURSIVE SumConteo(_)
SumConteo(ms) == IF ms = <<>> THEN 0 ELSE Head(ms).conteo + SumConteo(Tail(ms))

\* C3: with at least one match, the conteo fields of matches add up to
\* matched_tokens and matches has distinct_terms entries.
C3_MatchesAddUp ==
  Scored /\ out.matched_tokens > 0
    => /\ SumConteo(out.matches) = out.matched_tokens
       /\ Len(out.matches) = out.distinct_terms

\* Two entries, one of them hit more than once.
C3_Witness ==
  /\ Scored
  /\ Len(out.matches) >= 2
  /\ out.matched_tokens > Len(out.matches)
  /\ SumConteo(out.matches) = HitCount

\* The keys a row of the frame writes: its term, and its synonyms whose
\* normalized form is not empty.
RowKeys(row) ==
  {normalize_token(row.palabra)}
    \cup ({normalize_token(row.sinonimos[j]) : j \in 1..Len(row.sinonimos)} \ {<<>>})

NoLaterWrite(i, k) ==
  \A i2 \in (i + 1)..Len(vocab_df) : k \notin RowKeys(vocab_df[i2])

\* The text with every token s_key replaced by the string T.
ReplaceWord(t, s_key, T) ==
  LET toks == tokenize_text(t)
  IN [i \in 1..Len(toks) |->
        IF toks[i][1] = s_key THEN <<T, toks[i][2]>> ELSE toks[i]]

\* The text holds the word s_key, and no other key of the index.
OnlyVocabularyWord(s_key) ==
  LET hits == HitRuns
  IN /\ hits # <<>>
     /\ \A i \in 1..Len(hits) : hits[i][1] = s_key

SameCounts(r1, r2) ==
  /\ r1.matched_tokens = r2.matched_tokens
  /\ r1.distinct_terms = r2.distinct_terms
  /\ r1.avg_peso = r2.avg_peso

\* T is one word: accents and case apart, it is made of word characters.
IsOneWord(T) ==
  LET u == strip_accents(lower(T))
  IN u # <<>> /\ \A i \in 1..Len(u) : IsWordChar(u[i])

\* C4 (as stated): a text whose only vocabulary word is a synonym S of a
\* term T gets the same matched_tokens, distinct_terms and avg_peso as the
\* text with S replaced by T.
C4_SynonymEquivalence ==
  Scored =>
    \A i \in 1..Len(vocab_df) : \A j \in 1..Len(vocab_df[i].sinonimos) :
      LET T == vocab_df[i].palabra
          s_key == normalize_token(vocab_df[i].sinonimos[j])
      IN s_key # <<>> /\ OnlyVocabularyWord(s_key)
           => SameCounts(out, matcompat_score(ReplaceWord(text, s_key, T), vocab_idx))

\* C4 (amended): the same, provided T is one word and no record after the
\* one of T and S writes the key of S or the key of T.
C4_SynonymEquivalenceIfNotOverwritten ==
  Scored =>
    \A i \in 1..Len(vocab_df) : \A j \in 1..Len(vocab_df[i].sinonimos) :
      LET T == vocab_df[i].palabra
          s_key == normalize_token(vocab_df[i].sinonimos[j])
      IN /\ s_key # <<>>
         /\ OnlyVocabularyWord(s_key)
         /\ IsOneWord(T)
         /\ NoLaterWrite(i, s_key)
         /\ NoLaterWrite(i, normalize_token(T))
         => SameCounts(out, matcompat_score(ReplaceWord(text, s_key, T), vocab_idx))

\* A text of synonyms only, of an accented term that a later record does
\* not overwrite.
C4_Witness ==
  /\ Scored
  /\ out.matched_tokens >= 2
  /\ \E i \in 1..Len(vocab_df) : \E j \in 1..Len(vocab_df[i].sinonimos) :
       LET T == vocab_df[i].palabra
           s_key == normalize_token(vocab_df[i].sinonimos[j])
       IN /\ s_key # <<>> /\ s_key # normalize_token(T) /\ T # normalize_token(T)
          /\ OnlyVocabularyWord(s_key)
          /\ IsOneWord(T)
          /\ i < Len(vocab_df)
          /\ NoLaterWrite(i, s_key)
          /\ NoLaterWrite(i, normalize_token(T))

AllKeys == UNION {RowKeys(vocab_df[i]) : i \in 1..Len(vocab_df)}

LastWriter(k) ==
  CHOOSE i \in 1..Len(vocab_df) :
    /\ k \in RowKeys(vocab_df[i])
    /\ NoLaterWrite(i, k)

Built == pc \in {"ready", "scored", "warned"}

\* C5: every key a record produces is mapped to the (term, weight) of the
\* last record, in source order, that produces it.
C5_LastWriteWins ==
  Built =>
    \A k \in AllKeys :
      /\ k \in DOMAIN vocab_idx
      /\ LET last == vocab_df[LastWriter(k)]
         IN vocab_idx[k] = <<last.palabra, last.peso>>

\* A key written by two records with different pairs.
C5_Witness ==
  /\ Built
  /\ \E k \in AllKeys : \E i \in 1..Len(vocab_df) :
       /\ k \in RowKeys(vocab_df[i])
       /\ i < LastWriter(k)
       /\ <<vocab_df[i].palabra, vocab_df[i].peso>> # vocab_idx[k]

HasBadPercentage ==
  \E i \in 1..Len(rows) : ~IsFloat(rows[i].porcentaje_identidad)

\* C6: with a percentage that is not a number the load fails as a whole; no
\* frame and no index, not even of the records before the bad one, is made.
C6_BadPercentageAbortsLoad ==
  HasBadPercentage =>
    /\ pc \in {"start", "load_error"}
    /\ vocab_df = <<>>
    /\ vocab_idx = EmptyIndex

\* The load has failed on a bad record that follows a good one.
C6_Witness ==
  /\ pc = "load_error"
  /\ Len(rows) = 2
  /\ IsFloat(rows[1].porcentaje_identidad)
  /\ ~IsFloat(rows[2].porcentaje_identidad)

\* The tokens of the text counted chunk by chunk: copies times tokens.
NotStopword(tk) == tk \notin STOPWORDS_ES

RECURSIVE CountTokens(_)
CountTokens(t) ==
  IF t = <<>> THEN 0
  ELSE Head(t)[2] * Len(tokenize(Head(t)[1])) + CountTokens(Tail(t))

RECURSIVE CountSignificant(_)
CountSignificant(t) ==
  IF t = <<>> THEN 0
  ELSE Head(t)[2] * Len(SelectSeq(tokenize(Head(t)[1]), NotStopword))
         + CountSignificant(Tail(t))

NoTokenIsKey ==
  \A i \in 1..Len(text) :
    LET toks == tokenize(text[i][1])
    IN \A j \in 1..Len(toks) : toks[j] \notin DOMAIN vocab_idx

ZeroMatchFields ==
  /\ out.raised = ""
  /\ out.score = 0
  /\ out.matched_tokens = 0
  /\ out.distinct_terms = 0
  /\ out.avg_peso = 0
  /\ out.densidad_matematica = 0
  /\ out.matches = <<>>

\* C7 (as stated): when no token is a key the score is 0.0 and every counter,
\* total_tokens and tokens_significativos included, is 0.
C7_ZeroMatchAllZero ==
  /\ Built => matcompat_score(<<>>, vocab_idx) = ZeroResult(0, 0)
  /\ Scored /\ NoTokenIsKey
       => ZeroMatchFields /\ out.total_tokens = 0 /\ out.tokens_significativos = 0

\* C7 (amended): when no token is a key the score, matched_tokens,
\* distinct_terms, avg_peso and densidad_matematica are 0 and matches is
\* empty, while total_tokens and tokens_significativos are the numbers of
\* tokens and of non-stopword tokens of the text (0 and 0 for the empty
\* text, which only a direct call passes).
C7_ZeroMatchKeepsTokenCounts ==
  /\ Built => matcompat_score(<<>>, vocab_idx) = ZeroResult(0, 0)
  /\ Scored /\ NoTokenIsKey
       => /\ ZeroMatchFields
          /\ out.total_tokens = CountTokens(text)
          /\ out.tokens_significativos = CountSignificant(text)

\* A text of stopwords and other words, none of them a key of a non-empty index.
C7_Witness ==
  /\ Scored /\ NoTokenIsKey
  /\ DOMAIN vocab_idx # {}
  /\ out.tokens_significativos > 0
  /\ out.total_tokens > out.tokens_significativos

\* C8: with at least one match the call does not divide by zero and the
\* score is round(100 * (0.55 * avg + 0.45 * density), 2) in floats, avg the mean
\* weight over the matched token occurrences, stopwords included, density
\* the matched occurrences over the non-stopword tokens, or over all tokens
\* when every token is a stopword.
C8_ScoreFormula ==
  Scored /\ HitCount > 0
    => /\ out.raised = ""
       /\ DensityDenominator > 0
       /\ out.matched_tokens = HitCount
       /\ out.score = DRound(FormulaValue, 2)

\* Every token is a stopword and a key: the denominator is the token count.
C8_Witness ==
  /\ Scored
  /\ SigCount = 0
  /\ HitCount = TokLen(Toks)
  /\ HitCount >= 3
  /\ ~AllHitWeightsZero
  /\ out.score > 0

\* The pairs hit, and where the scan of the tokens first meets each.
HitPairs ==
  LET hits == HitRuns
  IN {vocab_idx[hits[i][1]] : i \in 1..Len(hits)}

FirstSeen(pair) ==
  LET hits == HitRuns
  IN CHOOSE i \in 1..Len(hits) :
       /\ vocab_idx[hits[i][1]] = pair
       /\ \A j \in 1..(i - 1) : vocab_idx[hits[j][1]] # pair

RECURSIVE PairCount(_, _)
PairCount(hits, pair) ==
  IF hits = <<>> THEN 0
  ELSE (IF vocab_idx[Head(hits)[1]] = pair THEN Head(hits)[2] ELSE 0)
         + PairCount(Tail(hits), pair)

PairOf(m) == <<m.termino, m.peso>>

OnePerPair ==
  LET hits == HitRuns
      pairs == HitPairs
  IN /\ {PairOf(out.matches[i]) : i \in 1..Len(out.matches)} = pairs
     /\ Len(out.matches) = Cardinality(pairs)
     /\ \A i \in 1..Len(out.matches) :
          out.matches[i].conteo = PairCount(hits, PairOf(out.matches[i]))

\* count * weight, the float product
Contribution(m) == DMul(DFromInt(m.conteo), m.peso)

\* C9 (as stated): one entry per (term, weight) pair hit, its contribution
\* count * weight, by contribution descending, equal contributions in the
\* order the pairs were first met.
C9_MatchesByContribution ==
  Scored /\ HitCount > 0 =>
    /\ OnePerPair
    /\ \A i \in 1..Len(out.matches) :
         DFromRatio(out.matches[i].aporte, Pow10(4)) = Contribution(out.matches[i])
    /\ \A i, j \in 1..Len(out.matches) :
         i < j =>
           LET c == DCmp(Contribution(out.matches[i]), Contribution(out.matches[j]))
           IN \/ c > 0
              \/ c = 0 /\ FirstSeen(PairOf(out.matches[i])) < FirstSeen(PairOf(out.matches[j]))

\* C9 (amended): one entry per (term, weight) pair hit, its contribution
\* round(count * weight, 4), by that rounded contribution descending,
\* equal rounded contributions in the order the pairs were first met.
C9_MatchesByRoundedContribution ==
  Scored /\ HitCount > 0 =>
    /\ OnePerPair
    /\ \A i \in 1..Len(out.matches) :
         out.matches[i].aporte = DRound(Contribution(out.matches[i]), 4)
    /\ \A i, j \in 1..Len(out.matches) :
         i < j =>
           \/ out.matches[i].aporte > out.matches[j].aporte
           \/ /\ out.matches[i].aporte = out.matches[j].aporte
              /\ FirstSeen(PairOf(out.matches[i])) < FirstSeen(PairOf(out.matches[j]))

\* Two entries that tie after rounding, the smaller weight met first.
C9_Witness ==
  /\ Scored
  /\ Len(out.matches) = 2
  /\ out.matches[1].aporte = out.matches[2].aporte
  /\ DCmp(out.matches[1].peso, out.matches[2].peso) < 0
  /\ out.matches[1].conteo = out.matches[2].conteo

\* C10: distinct_terms is the number of distinct canonical terms hit, and no
\* two entries of matches have the same canonical term.
C10_DistinctCanonicalTerms ==
  Scored =>
    /\ out.distinct_terms = Cardinality({p[1] : p \in HitPairs})
    /\ \A i, j \in 1..Len(out.matches) :
         out.matches[i].termino = out.matches[j].termino => i = j

====
